---- MODULE Spec2Model ----
(***************************************************************************)
(* ICS4 MsgChannelOpenConfirm handler of chain B                            *)
(* (crates/ibc/src/core/ics04_channel/handler/chan_open_confirm.rs).        *)
(*                                                                          *)
(* The context of chain B is the store (channel ends, connection ends,      *)
(* client states, consensus states) plus the event and log sequences.       *)
(* Option values are sequences of length 0 (None) or 1 (Some).              *)
(***************************************************************************)
EXTENDS Integers, Sequences, FiniteSets, TLC

VARIABLES channels, connections, client_states, consensus_states,
          events, logs, last, pre, nstore, inflight

vars == <<channels, connections, client_states, consensus_states,
          events, logs, last, pre, nstore, inflight>>

(* ------------------------------ bounds --------------------------------- *)

\* number of execute calls that reach the store write in one behaviour
MaxStore == 1

\* number of validated messages a caller holds before it executes them
MaxInflight == 2

(* ---------------------------- identifiers ------------------------------ *)

PortB == "portB"
PortA == "portA"
ChanB1 == "chanB1"
ChanB2 == "chanB2"
ChanA1 == "chanA1"
ChanA2 == "chanA2"
Conn1 == "conn1"
Conn2 == "conn2"
ConnA == "connA"
Client1 == "client1"
PrefixA == "ibc"
RootA == "rootA"

ChanIdsB == {ChanB1, ChanB2}
Heights == {1, 2}
Signers == {"relayer", "mallory"}

None == <<>>
Some(x) == <<x>>

\* ChannelEndPath::new(port, chan)
ChannelEndPath(port, chan) == <<"channelEnds", port, chan>>
\* ClientConsensusStatePath::new(client, height)
ClientConsensusStatePath(client, height) == <<"consensusStates", client, height>>


(* ------------------------------ entities ------------------------------- *)

ChannelStates == {"Uninitialized", "Init", "TryOpen", "Open", "Closed"}
ConnectionStates == {"Uninitialized", "Init", "TryOpen", "Open"}

\* ChannelEnd { state, ordering, remote, connection_hops, version }
ChannelEnd_mk(state, ordering, port, chan_opt, hops, version) ==
    [state |-> state, ordering |-> ordering,
     remote |-> [port_id |-> port, channel_id |-> chan_opt],
     connection_hops |-> hops, version |-> version]

\* ConnectionEnd seen through state, client_id() and counterparty()
ConnectionEnd_mk(state, client, conn_opt) ==
    [state |-> state, client_id |-> client,
     counterparty |-> [connection_id |-> conn_opt, prefix |-> PrefixA]]

\* protobuf numbering of channel::State and channel::Order
StateNum(s) ==
    CASE s = "Uninitialized" -> 0 [] s = "Init" -> 1 [] s = "TryOpen" -> 2
      [] s = "Open" -> 3 [] s = "Closed" -> 4

OrderNum(o) == CASE o = "None" -> 0 [] o = "Unordered" -> 1 [] o = "Ordered" -> 2

\* Protobuf::encode_vec of a ChannelEnd: the fields in wire order
encode_vec(ce) ==
    <<StateNum(ce.state), OrderNum(ce.ordering), ce.remote.port_id,
      ce.remote.channel_id, ce.connection_hops, ce.version>>

(* ------------------------- counterparty chain A ------------------------ *)

\* The channel ends chain A holds after its OPEN_ACK.  A's second channel
\* was acknowledged with another version than B recorded for it.
ChainA_chan(chanA) ==
    IF chanA = ChanA1
    THEN ChannelEnd_mk("Open", "Unordered", PortB, Some(ChanB1), <<ConnA>>, "v1")
    ELSE ChannelEnd_mk("Open", "Ordered", PortB, Some(ChanB2), <<ConnA>>, "v2")

\* A commitment proof binds (prefix, root, path, value).
ProofOf(chanA) ==
    [prefix |-> PrefixA, root |-> RootA,
     path |-> ChannelEndPath(PortA, chanA),
     value |-> encode_vec(ChainA_chan(chanA))]

Proofs == {ProofOf(ChanA1), ProofOf(ChanA2)}

\* MsgChannelOpenConfirm
AllMsgs ==
    [port_id_on_b : {PortB}, chan_id_on_b : ChanIdsB,
     proof_chan_end_on_a : Proofs, proof_height_on_a : Heights,
     signer : Signers]

\* the messages submitted: the honest one for each channel, and the ones
\* that differ from it in the proof, in the height or in the signer
Msgs ==
    {m \in AllMsgs :
        Cardinality({x \in {"proof", "height", "signer"} :
            \/ x = "proof" /\ m.proof_chan_end_on_a # ProofOf(ChanA1)
            \/ x = "height" /\ m.proof_height_on_a # 1
            \/ x = "signer" /\ m.signer # "relayer"}) <= 1}

\* execute reads only the port and channel identifiers of its message
ExecMsgs ==
    {m \in Msgs : /\ m.proof_chan_end_on_a = ProofOf(ChanA1)
                  /\ m.proof_height_on_a = 1
                  /\ m.signer = "relayer"}

(* ----------------------- context capabilities -------------------------- *)

Ctx == [channels |-> channels, connections |-> connections,
        client_states |-> client_states, consensus_states |-> consensus_states]

\* ValidationContext::validate_message_signer
validate_message_signer(ctx, signer) == signer = "relayer"

\* ValidationContext::channel_end
channel_end(ctx, path) == ctx.channels[path]

\* ValidationContext::connection_end
connection_end(ctx, conn_id) == ctx.connections[conn_id]

\* ValidationContext::client_state
client_state(ctx, client_id) == ctx.client_states[client_id]

\* ValidationContext::consensus_state
consensus_state(ctx, path) == ctx.consensus_states[path]

\* ChannelEnd::verify_state_matches / ConnectionEnd::verify_state_matches
verify_state_matches(end, expected) == end.state = expected

\* ChannelEnd::verify_connection_hops_length
verify_connection_hops_length(chan_end) == Len(chan_end.connection_hops) = 1

\* ChannelEnd::new runs the basic validation of the end it builds
ChannelEnd_new(state, ordering, remote, hops, version) ==
    IF state # "Uninitialized" /\ Len(hops) = 1
    THEN Some([state |-> state, ordering |-> ordering, remote |-> remote,
               connection_hops |-> hops, version |-> version])
    ELSE None

(* ----------------------- light client capability ----------------------- *)

Statuses == {"Active", "Frozen", "Expired"}

\* ClientStateValidation::status: Ok(status) or an error
status(cs) == IF cs.status \in Statuses THEN Some(cs.status) ELSE None

\* Status::is_active
is_active(st) == st = "Active"

\* ClientStateCommon::validate_proof_height
validate_proof_height(cs, height) == height <= cs.latest_height

\* ClientStateCommon::verify_membership: "" on success, else the client's error
verify_membership(prefix, proof, root, path, value) ==
    IF proof.root # root THEN "RootMismatch"
    ELSE IF proof.prefix # prefix \/ proof.path # path THEN "PathNotCommitted"
    ELSE IF proof.value # value THEN "ValueMismatch"
    ELSE ""

(* ------------------------------- validate ------------------------------ *)

\* Result<(), ContextError> of validate, with the calls it made (trace) and
\* the arguments it handed to verify_membership (vm), if it got that far.
Ok(trace, vm) ==
    [ok |-> TRUE, err |-> "", payload |-> "", trace |-> trace, vm |-> vm]

Err(kind, payload, trace) ==
    [ok |-> FALSE, err |-> kind, payload |-> payload, trace |-> trace, vm |-> None]

\* fault: the handler confirms from Init, the precondition of OPEN_ACK
RequiredChannelState_ack == "Init"

\* fault: the handler confirms a channel end that was closed
RequiredChannelState_closed == "Closed"

\* the state verify_state_matches is asked for on the channel end
RequiredChannelState == "TryOpen"

\* fault: the handler accepts a connection that is still in its handshake
RequiredConnectionState_tryopen == "TryOpen"

\* the state verify_state_matches is asked for on the connection end
RequiredConnectionState == "Open"

\* fault: the error reports a fixed status instead of the one observed
ClientNotActive_fixed(st, trace) == Err("ClientNotActive", "Expired", trace)

\* ClientError::ClientNotActive { status }
ClientNotActive(st, trace) == Err("ClientNotActive", st, trace)

\* fault: the light client's error is dropped for a fixed one
VerifyChannelFailed_opaque(e, trace) ==
    Err("VerifyChannelFailed", "InvalidProof", trace)

\* .map_err(ChannelError::VerifyChannelFailed)
VerifyChannelFailed(e, trace) == Err("VerifyChannelFailed", e, trace)

\* fault: the expected end keeps B's own counterparty instead of naming
\* B's port and channel
expected_chan_end_on_a_unmirrored(chan_end_on_b, msg, conn_id_on_a) ==
    ChannelEnd_new("Open", chan_end_on_b.ordering, chan_end_on_b.remote,
                   <<conn_id_on_a>>, chan_end_on_b.version)

\* ChannelEnd::new(Open, ordering of B, Counterparty(msg port, msg chan),
\*                 [conn_id_on_a], version of B)
expected_chan_end_on_a(chan_end_on_b, msg, conn_id_on_a) ==
    ChannelEnd_new("Open", chan_end_on_b.ordering,
                   [port_id |-> msg.port_id_on_b,
                    channel_id |-> Some(msg.chan_id_on_b)],
                   <<conn_id_on_a>>, chan_end_on_b.version)

\* fault: an unset counterparty channel id is read as ChannelId::default()
chan_id_on_a_or_default(chan_end_on_b) ==
    IF chan_end_on_b.remote.channel_id = None
    THEN Some(ChanA1)
    ELSE chan_end_on_b.remote.channel_id

\* chan_end_on_b.counterparty().channel_id(), None when unset
chan_id_on_a_of(chan_end_on_b) == chan_end_on_b.remote.channel_id

\* the proof block of validate, entered with an Open connection end
verify_proofs(ctx, msg, chan_end_on_b, conn_end_on_b, t0) ==
    LET client_id_on_b == conn_end_on_b.client_id
        cs_opt == client_state(ctx, client_id_on_b)
        t1 == Append(t0, "client_state")
    IN
    IF cs_opt = None THEN Err("ClientStateNotFound", client_id_on_b, t1) ELSE
    LET cs == cs_opt[1]
        st_opt == status(cs)
        t2 == Append(t1, "status")
    IN
    IF st_opt = None THEN Err("ClientStatusError", client_id_on_b, t2) ELSE
    IF ~is_active(st_opt[1]) THEN ClientNotActive(st_opt[1], t2) ELSE
    LET t3 == Append(t2, "validate_proof_height") IN
    IF ~validate_proof_height(cs, msg.proof_height_on_a)
    THEN Err("InvalidProofHeight", "", t3) ELSE
    LET cons_path == ClientConsensusStatePath(client_id_on_b, msg.proof_height_on_a)
        cons_opt == consensus_state(ctx, cons_path)
        t4 == Append(t3, "consensus_state")
    IN
    IF cons_opt = None THEN Err("ConsensusStateNotFound", client_id_on_b, t4) ELSE
    LET prefix_on_a == conn_end_on_b.counterparty.prefix
        port_id_on_a == chan_end_on_b.remote.port_id
        chan_opt == chan_id_on_a_of(chan_end_on_b)
        t5 == Append(t4, "counterparty_channel_id")
    IN
    IF chan_opt = None THEN Err("MissingCounterparty", "", t5) ELSE
    LET conn_opt == conn_end_on_b.counterparty.connection_id
        t6 == Append(t5, "counterparty_connection_id")
    IN
    IF conn_opt = None
    THEN Err("UndefinedConnectionCounterparty", chan_end_on_b.connection_hops[1], t6)
    ELSE
    LET exp_opt == expected_chan_end_on_a(chan_end_on_b, msg, conn_opt[1])
        t7 == Append(t6, "ChannelEnd_new")
    IN
    IF exp_opt = None THEN Err("InvalidChannelEnd", "", t7) ELSE
    LET chan_end_path_on_a == ChannelEndPath(port_id_on_a, chan_opt[1])
        args == [prefix |-> prefix_on_a,
                 proof |-> msg.proof_chan_end_on_a,
                 root |-> cons_opt[1].root,
                 path |-> chan_end_path_on_a,
                 value |-> encode_vec(exp_opt[1])]
        e == verify_membership(args.prefix, args.proof, args.root, args.path,
                               args.value)
        t8 == Append(t7, "verify_membership")
    IN
    IF e # ""
    THEN [VerifyChannelFailed(e, t8) EXCEPT !.vm = Some(args)]
    ELSE Ok(t8, Some(args))

\* fault: the channel end is looked up under the port alone, so any
\* channel end of the port answers the lookup
load_chan_end_on_b_any(ctx, msg) ==
    LET found == {p \in DOMAIN ctx.channels :
                     p[2] = msg.port_id_on_b /\ ctx.channels[p] # None}
    IN IF found = {} THEN None ELSE ctx.channels[CHOOSE p \in found : TRUE]

\* ctx_b.channel_end(&ChannelEndPath::new(&msg.port_id_on_b, &msg.chan_id_on_b))
load_chan_end_on_b(ctx, msg) ==
    channel_end(ctx, ChannelEndPath(msg.port_id_on_b, msg.chan_id_on_b))

\* fault: the connection hops are counted before the channel state is matched
validate_hops_first(ctx, msg) ==
    LET t1 == <<"validate_message_signer">> IN
    IF ~validate_message_signer(ctx, msg.signer)
    THEN Err("SignerRejected", msg.signer, t1) ELSE
    LET ce_opt == load_chan_end_on_b(ctx, msg)
        t2 == Append(t1, "channel_end")
    IN
    IF ce_opt = None THEN Err("ChannelNotFound", msg.chan_id_on_b, t2) ELSE
    LET chan_end_on_b == ce_opt[1]
        t3 == Append(t2, "verify_connection_hops_length")
    IN
    IF ~verify_connection_hops_length(chan_end_on_b)
    THEN Err("InvalidConnectionHopsLength", "", t3) ELSE
    LET t4 == Append(t3, "channel.verify_state_matches") IN
    IF ~verify_state_matches(chan_end_on_b, RequiredChannelState)
    THEN Err("InvalidChannelState", chan_end_on_b.state, t4) ELSE
    LET conn_opt == connection_end(ctx, chan_end_on_b.connection_hops[1])
        t5 == Append(t4, "connection_end")
    IN
    IF conn_opt = None
    THEN Err("ConnectionNotFound", chan_end_on_b.connection_hops[1], t5) ELSE
    LET conn_end_on_b == conn_opt[1]
        t6 == Append(t5, "connection.verify_state_matches")
    IN
    IF ~verify_state_matches(conn_end_on_b, RequiredConnectionState)
    THEN Err("InvalidConnectionState", conn_end_on_b.state, t6)
    ELSE verify_proofs(ctx, msg, chan_end_on_b, conn_end_on_b, t6)

\* fn validate(ctx_b, msg)
validate(ctx, msg) ==
    LET t1 == <<"validate_message_signer">> IN
    IF ~validate_message_signer(ctx, msg.signer)
    THEN Err("SignerRejected", msg.signer, t1) ELSE
    LET ce_opt == load_chan_end_on_b(ctx, msg)
        t2 == Append(t1, "channel_end")
    IN
    IF ce_opt = None THEN Err("ChannelNotFound", msg.chan_id_on_b, t2) ELSE
    LET chan_end_on_b == ce_opt[1]
        t3 == Append(t2, "channel.verify_state_matches")
    IN
    IF ~verify_state_matches(chan_end_on_b, RequiredChannelState)
    THEN Err("InvalidChannelState", chan_end_on_b.state, t3) ELSE
    LET t4 == Append(t3, "verify_connection_hops_length") IN
    IF ~verify_connection_hops_length(chan_end_on_b)
    THEN Err("InvalidConnectionHopsLength", "", t4) ELSE
    LET conn_opt == connection_end(ctx, chan_end_on_b.connection_hops[1])
        t5 == Append(t4, "connection_end")
    IN
    IF conn_opt = None
    THEN Err("ConnectionNotFound", chan_end_on_b.connection_hops[1], t5) ELSE
    LET conn_end_on_b == conn_opt[1]
        t6 == Append(t5, "connection.verify_state_matches")
    IN
    IF ~verify_state_matches(conn_end_on_b, RequiredConnectionState)
    THEN Err("InvalidConnectionState", conn_end_on_b.state, t6)
    ELSE verify_proofs(ctx, msg, chan_end_on_b, conn_end_on_b, t6)

(* ------------------------------- module -------------------------------- *)

\* ModuleExtras bundles a module may return from on_chan_open_confirm_execute
ExtrasSet ==
    {[events |-> <<>>, log |-> <<>>],
     [events |-> <<"m1", "m2">>, log |-> <<"l1">>]}

\* Result of on_chan_open_confirm_execute: Some(extras) or None for an error
ExecHookResults == {None} \cup {Some(x) : x \in ExtrasSet}

\* Result of on_chan_open_confirm_validate: "" or the module's error
ValHookResults == {"", "ModuleRejected"}

(* ------------------------------- execute ------------------------------- *)

\* fault: the clone is stored without the state change
set_state_open_skipped(chan_end) == chan_end

\* fault: the stored end is rebuilt around the new state and loses its version
set_state_open_rebuilt(chan_end) ==
    [chan_end EXCEPT !.state = "Open", !.version = ""]

\* chan_end_on_b.set_state(State::Open)
set_state_open(chan_end) == [chan_end EXCEPT !.state = "Open"]

\* ExecutionContext::store_channel; a failing store writes nothing
store_channel(chans, path, chan_end) == [chans EXCEPT ![path] = Some(chan_end)]

\* fault: the two ends are passed to OpenConfirm::new in the wrong order
core_event_ends_swapped(msg, port_id_on_a, chan_id_on_a, conn_id_on_b) ==
    <<"OpenConfirmChannel", port_id_on_a, chan_id_on_a,
      msg.port_id_on_b, msg.chan_id_on_b, conn_id_on_b>>

\* IbcEvent::OpenConfirmChannel(OpenConfirm::new(...))
core_event(msg, port_id_on_a, chan_id_on_a, conn_id_on_b) ==
    <<"OpenConfirmChannel", msg.port_id_on_b, msg.chan_id_on_b,
      port_id_on_a, chan_id_on_a, conn_id_on_b>>

\* IbcEvent::Message(MessageEvent::Channel)
MessageChannel == <<"Message", "Channel">>

\* IbcEvent::Module(module_event)
ModuleEvent(e) == <<"Module", e>>

\* fault: the module's events are emitted before the core's two
emitted_events_module_first(core, extras) ==
    [i \in 1..Len(extras.events) |-> ModuleEvent(extras.events[i])] \o
    <<MessageChannel, core>>

\* the events one successful execute emits, in emission order
emitted_events(core, extras) ==
    <<MessageChannel, core>> \o
    [i \in 1..Len(extras.events) |-> ModuleEvent(extras.events[i])]

\* the log lines one successful execute writes, in order
emitted_logs(extras) == <<"success: channel open confirm">> \o extras.log

InternalError ==
    "internal error: ChannelEnd doesn't have a counterparty channel id in OpenConfirm"

\* what one call leaves behind: the context, the Result (returned is FALSE
\* when the call aborted instead of returning) and what store_channel did
ExecOut(chans, evs, lgs, ok, err, returned, store) ==
    [channels |-> chans, events |-> evs, logs |-> lgs,
     res |-> [ok |-> ok, err |-> err, returned |-> returned], store |-> store]

\* chan_open_confirm_execute past the module hook, which returned extras;
\* store_ok is what the store answers in this call
execute_with_extras(chans, evs, lgs, extras, store_ok, msg) ==
    LET chan_end_path_on_b == ChannelEndPath(msg.port_id_on_b, msg.chan_id_on_b)
        ce_opt == chans[chan_end_path_on_b]
    IN
    IF ce_opt = None
    THEN ExecOut(chans, evs, lgs, FALSE, "ChannelNotFound", TRUE, "not_called") ELSE
    IF ~store_ok
    THEN ExecOut(chans, evs, lgs, FALSE, "StoreError", TRUE, "failed") ELSE
    LET chan_end_on_b == ce_opt[1]
        chans1 == store_channel(chans, chan_end_path_on_b,
                                set_state_open(chan_end_on_b))
        lgs1 == Append(lgs, "success: channel open confirm")
    IN
    \* connection_hops[0] on an empty vector aborts the call
    IF Len(chan_end_on_b.connection_hops) = 0
    THEN ExecOut(chans1, evs, lgs1, FALSE, "Panic", FALSE, "written") ELSE
    LET conn_id_on_b == chan_end_on_b.connection_hops[1]
        port_id_on_a == chan_end_on_b.remote.port_id
        chan_opt == chan_end_on_b.remote.channel_id
    IN
    IF chan_opt = None
    THEN ExecOut(chans1, evs, lgs1, FALSE, InternalError, TRUE, "written") ELSE
    LET core == core_event(msg, port_id_on_a, chan_opt[1], conn_id_on_b) IN
    ExecOut(chans1, evs \o emitted_events(core, extras),
            lgs \o emitted_logs(extras),
            TRUE, "", TRUE, "written")

\* fault: the module hook is consulted after the core has stored and logged
chan_open_confirm_execute_hook_last(chans, evs, lgs, hook, store_ok, msg) ==
    IF hook # None
    THEN execute_with_extras(chans, evs, lgs, hook[1], store_ok, msg)
    ELSE LET out == execute_with_extras(chans, evs, lgs,
                                        [events |-> <<>>, log |-> <<>>],
                                        store_ok, msg)
         IN IF out.res.ok
            THEN ExecOut(out.channels, evs, out.logs, FALSE, "ModuleError",
                         TRUE, out.store)
            ELSE out

\* fn chan_open_confirm_execute(ctx_b, module, msg); hook is what the
\* module's on_chan_open_confirm_execute answers in this call
chan_open_confirm_execute(chans, evs, lgs, hook, store_ok, msg) ==
    IF hook = None
    THEN ExecOut(chans, evs, lgs, FALSE, "ModuleError", TRUE, "not_called")
    ELSE execute_with_extras(chans, evs, lgs, hook[1], store_ok, msg)

(* ------------------------- initial contexts ---------------------------- *)

InitChan1 ==
    {None} \cup
    {Some(ChannelEnd_mk(s, "Unordered", PortA, cp, hops, "v1")) :
        s \in ChannelStates \ {"Uninitialized"},
        cp \in {None, Some(ChanA1)},
        hops \in {<<>>, <<Conn1>>, <<Conn1, Conn2>>}}

InitChan2 ==
    {Some(ChannelEnd_mk("TryOpen", "Ordered", PortA, Some(ChanA2), <<Conn1>>, "v1"))}

InitConn1 ==
    {None, Some(ConnectionEnd_mk("Open", Client1, None))} \cup
    {Some(ConnectionEnd_mk(s, Client1, Some(ConnA))) :
        s \in ConnectionStates \ {"Uninitialized"}}

InitClient ==
    {<<None, None>>, <<Some([status |-> "Active", latest_height |-> 1]), None>>} \cup
    {<<Some([status |-> st, latest_height |-> 1]), Some([root |-> RootA])>> :
        st \in Statuses \cup {"Error"}}

Snapshot ==
    [channels |-> channels, connections |-> connections,
     client_states |-> client_states, consensus_states |-> consensus_states,
     events |-> events, logs |-> logs]

Init ==
    /\ \E c1 \in InitChan1, c2 \in InitChan2 :
          channels = (ChannelEndPath(PortB, ChanB1) :> c1) @@
                     (ChannelEndPath(PortB, ChanB2) :> c2)
    /\ \E c \in InitConn1 : connections = (Conn1 :> c) @@ (Conn2 :> None)
    /\ \E cl \in InitClient :
          /\ client_states = (Client1 :> cl[1])
          /\ consensus_states =
                (ClientConsensusStatePath(Client1, 1) :> cl[2]) @@
                (ClientConsensusStatePath(Client1, 2) :> None)
    /\ events = <<>>
    /\ logs = <<>>
    /\ last = [op |-> "none"]
    /\ pre = Snapshot
    /\ nstore = 0
    /\ inflight = <<>>

(* ------------------------------- actions ------------------------------- *)

\* fault: a validation that succeeds already stores the channel end as Open
ChanOpenConfirmValidate_commits ==
    \E msg \in Msgs, hook \in ValHookResults :
      \E core \in {validate(Ctx, msg)} :
        /\ last' = [op |-> "validate", msg |-> msg, core |-> core,
                    hook_called |-> core.ok,
                    hook |-> IF core.ok THEN Some(hook) ELSE None,
                    res |-> IF ~core.ok
                            THEN [ok |-> FALSE, err |-> core.err, payload |-> core.payload]
                            ELSE [ok |-> hook = "", err |-> hook, payload |-> ""]]
        /\ pre' = Snapshot
        /\ channels' =
              IF core.ok /\ hook = ""
              THEN [channels EXCEPT
                      ![ChannelEndPath(msg.port_id_on_b, msg.chan_id_on_b)] =
                          Some(set_state_open(@[1]))]
              ELSE channels
        /\ UNCHANGED <<connections, client_states, consensus_states,
                       events, logs, nstore, inflight>>

\* fault: the module hook is asked first and core validate after it
ChanOpenConfirmValidate_hook_first ==
    \E msg \in Msgs, hook \in ValHookResults :
      \E core \in {validate(Ctx, msg)} :
        /\ last' = [op |-> "validate", msg |-> msg, core |-> core,
                    hook_called |-> TRUE,
                    hook |-> Some(hook),
                    res |-> IF hook # ""
                            THEN [ok |-> FALSE, err |-> hook, payload |-> ""]
                            ELSE [ok |-> core.ok, err |-> core.err,
                                  payload |-> core.payload]]
        /\ pre' = Snapshot
        /\ UNCHANGED <<channels, connections, client_states, consensus_states,
                       events, logs, nstore, inflight>>

\* fn chan_open_confirm_validate(ctx_b, module, msg)
ChanOpenConfirmValidate ==
    \E msg \in Msgs, hook \in ValHookResults :
      \E core \in {validate(Ctx, msg)} :
        /\ last' = [op |-> "validate", msg |-> msg, core |-> core,
                    hook_called |-> core.ok,
                    hook |-> IF core.ok THEN Some(hook) ELSE None,
                    res |-> IF ~core.ok
                            THEN [ok |-> FALSE, err |-> core.err, payload |-> core.payload]
                            ELSE [ok |-> hook = "", err |-> hook, payload |-> ""]]
        /\ pre' = Snapshot
        /\ UNCHANGED <<channels, connections, client_states, consensus_states,
                       events, logs, nstore, inflight>>

\* fn chan_open_confirm_execute(ctx_b, module, msg)
ChanOpenConfirmExecute ==
    /\ nstore < MaxStore
    /\ \E msg \in ExecMsgs, hook \in ExecHookResults, store_ok \in BOOLEAN :
      \E out \in {chan_open_confirm_execute(channels, events, logs, hook,
                                            store_ok, msg)} :
        /\ channels' = out.channels
        /\ events' = out.events
        /\ logs' = out.logs
        /\ nstore' = IF out.store = "written" THEN nstore + 1 ELSE nstore
        /\ last' = [op |-> "execute", msg |-> msg, hook |-> hook,
                    res |-> out.res, store |-> out.store,
                    after_validate |-> /\ last.op = "validate"
                                       /\ last.msg = msg
                                       /\ last.core.ok]
        /\ pre' = Snapshot
        /\ UNCHANGED <<connections, client_states, consensus_states, inflight>>

Next == ChanOpenConfirmValidate \/ ChanOpenConfirmExecute

Spec == Init /\ [][Next]_vars

(* ---------------- a caller that validates before it executes ----------- *)

\* contexts with an Open connection and an active client, in which chanB1
\* is in any state and chanB2 is in TryOpen with either version
InitChan2Seq ==
    {Some(ChannelEnd_mk("TryOpen", "Ordered", PortA, Some(ChanA2), <<Conn1>>, v)) :
        v \in {"v1", "v2"}}

InitSeq ==
    /\ \E c1 \in InitChan1, c2 \in InitChan2Seq :
          channels = (ChannelEndPath(PortB, ChanB1) :> c1) @@
                     (ChannelEndPath(PortB, ChanB2) :> c2)
    /\ connections = (Conn1 :> Some(ConnectionEnd_mk("Open", Client1, Some(ConnA))))
                     @@ (Conn2 :> None)
    /\ client_states = (Client1 :> Some([status |-> "Active", latest_height |-> 1]))
    /\ consensus_states =
          (ClientConsensusStatePath(Client1, 1) :> Some([root |-> RootA])) @@
          (ClientConsensusStatePath(Client1, 2) :> None)
    /\ events = <<>>
    /\ logs = <<>>
    /\ last = [op |-> "none"]
    /\ pre = Snapshot
    /\ nstore = 0
    /\ inflight = <<>>

\* the caller runs chan_open_confirm_validate while it holds fewer than cap
\* validated messages, and keeps the message when validation succeeded
DispatchValidate(cap) ==
    /\ Len(inflight) < cap
    /\ \E msg \in Msgs, hook \in ValHookResults :
      \E core \in {validate(Ctx, msg)} :
        /\ last' = [op |-> "validate", msg |-> msg, core |-> core,
                    hook_called |-> core.ok,
                    hook |-> IF core.ok THEN Some(hook) ELSE None,
                    res |-> IF ~core.ok
                            THEN [ok |-> FALSE, err |-> core.err, payload |-> core.payload]
                            ELSE [ok |-> hook = "", err |-> hook, payload |-> ""]]
        /\ pre' = Snapshot
        /\ inflight' = IF core.ok /\ hook = ""
                       THEN Append(inflight, msg) ELSE inflight
        /\ UNCHANGED <<channels, connections, client_states, consensus_states,
                       events, logs, nstore>>

\* the caller runs chan_open_confirm_execute on a message it validated
DispatchExecute ==
    \E i \in 1..Len(inflight), hook \in ExecHookResults, store_ok \in BOOLEAN :
      \E out \in {chan_open_confirm_execute(channels, events, logs, hook,
                                            store_ok, inflight[i])} :
        /\ channels' = out.channels
        /\ events' = out.events
        /\ logs' = out.logs
        /\ nstore' = IF out.store = "written" THEN nstore + 1 ELSE nstore
        /\ last' = [op |-> "execute", msg |-> inflight[i], hook |-> hook,
                    res |-> out.res, store |-> out.store,
                    after_validate |-> /\ last.op = "validate"
                                       /\ last.msg = inflight[i]
                                       /\ last.core.ok]
        /\ pre' = Snapshot
        /\ inflight' = SubSeq(inflight, 1, i - 1) \o
                       SubSeq(inflight, i + 1, Len(inflight))
        /\ UNCHANGED <<connections, client_states, consensus_states>>

\* every execute directly follows the successful validate of its message
NextSeq == DispatchValidate(1) \/ DispatchExecute

SpecSeq == InitSeq /\ [][NextSeq]_vars

\* up to MaxInflight messages are validated before any of them is executed
NextRace == DispatchValidate(MaxInflight) \/ DispatchExecute

SpecRace == InitSeq /\ [][NextRace]_vars

(* ===================== properties of validate ========================== *)

Validated == last.op = "validate"
Executed == last.op = "execute"

\* the context the last call ran on
PreCtx ==
    [channels |-> pre.channels, connections |-> pre.connections,
     client_states |-> pre.client_states,
     consensus_states |-> pre.consensus_states]

\* the channel end stored under the last message's identifiers at call time
MsgPath == ChannelEndPath(last.msg.port_id_on_b, last.msg.chan_id_on_b)
PreChan == pre.channels[MsgPath]

SignerAccepted == validate_message_signer(PreCtx, last.msg.signer)

Called(name) == \E i \in 1..Len(last.core.trace) : last.core.trace[i] = name

ConnectionChecks == {"connection_end", "connection.verify_state_matches"}
ClientChecks == {"client_state", "status", "validate_proof_height", "consensus_state"}
ProofChecks == {"verify_membership"}

\* C1 (as stated): whenever validate ran on a context whose channel end at
\* the message's identifiers exists in a state other than TryOpen, it
\* returned the channel-state-mismatch error and made no connection, client
\* or proof check.
C1_Original ==
    (Validated /\ PreChan # None /\ PreChan[1].state # "TryOpen")
    => /\ last.core.err = "InvalidChannelState"
       /\ \A c \in ConnectionChecks \cup ClientChecks \cup ProofChecks : ~Called(c)

\* C1 (amended): the same, for messages whose signer the context accepts;
\* a rejected signer is reported before the channel end is loaded.
C1_WrongStateRejected ==
    (Validated /\ SignerAccepted /\ PreChan # None /\ PreChan[1].state # "TryOpen")
    => /\ ~last.core.ok
       /\ last.core.err = "InvalidChannelState"
       /\ last.core.payload = PreChan[1].state
       /\ \A c \in ConnectionChecks \cup ClientChecks \cup ProofChecks : ~Called(c)

\* an Init channel end over an Open connection with an active client is
\* rejected for its state
C1_Witness ==
    /\ Validated /\ SignerAccepted
    /\ PreChan # None /\ PreChan[1].state = "Init"
    /\ PreChan[1].connection_hops = <<Conn1>>
    /\ pre.connections[Conn1] # None /\ pre.connections[Conn1][1].state = "Open"
    /\ pre.client_states[Client1] # None
    /\ pre.client_states[Client1][1].status = "Active"
    /\ last.core.err = "InvalidChannelState"

\* C2 (as stated): whenever validate ran on a context with no channel end
\* at the message's identifiers, it returned the lookup error.
C2_Original ==
    (Validated /\ PreChan = None)
    => (~last.core.ok /\ last.core.err = "ChannelNotFound")

\* C2 (amended): the same, for messages whose signer the context accepts.
C2_AbsentChannelRejected ==
    (Validated /\ SignerAccepted /\ PreChan = None)
    => /\ ~last.core.ok
       /\ last.core.err = "ChannelNotFound"
       /\ last.core.trace = <<"validate_message_signer", "channel_end">>

\* no channel end, while the client and an Open connection exist
C2_Witness ==
    /\ Validated /\ SignerAccepted /\ PreChan = None
    /\ pre.connections[Conn1] # None /\ pre.connections[Conn1][1].state = "Open"
    /\ pre.client_states[Client1] # None
    /\ last.core.err = "ChannelNotFound"

\* the connection end the single hop of the stored channel end names
HopConn == pre.connections[PreChan[1].connection_hops[1]]

\* C3: whenever validate ran on a TryOpen channel end with exactly one
\* connection hop whose connection end exists in a state other than Open, it
\* returned an error and verify_membership was not called.
C3_ConnectionNotOpenRejected ==
    (/\ Validated
     /\ PreChan # None /\ PreChan[1].state = "TryOpen"
     /\ Len(PreChan[1].connection_hops) = 1
     /\ HopConn # None /\ HopConn[1].state # "Open")
    => /\ ~last.core.ok
       /\ ~Called("verify_membership")
       /\ last.core.vm = None

\* a TryOpen connection under an otherwise complete context is rejected
C3_Witness ==
    /\ Validated /\ SignerAccepted
    /\ PreChan # None /\ PreChan[1].state = "TryOpen"
    /\ PreChan[1].connection_hops = <<Conn1>>
    /\ PreChan[1].remote.channel_id # None
    /\ HopConn # None /\ HopConn[1].state = "TryOpen"
    /\ pre.client_states[Client1] # None
    /\ pre.client_states[Client1][1].status = "Active"
    /\ last.core.err = "InvalidConnectionState"
    /\ last.core.payload = "TryOpen"

\* the client state of the connection's client, at call time
HopClient == pre.client_states[HopConn[1].client_id]

\* C4 (as stated): whenever validate ran on a TryOpen channel end whose
\* connection is Open and whose client is Frozen or Expired, it returned
\* ClientNotActive carrying that status, and called neither
\* validate_proof_height nor verify_membership.
C4_Original ==
    (/\ Validated
     /\ PreChan # None /\ PreChan[1].state = "TryOpen"
     /\ Len(PreChan[1].connection_hops) >= 1
     /\ HopConn # None /\ HopConn[1].state = "Open"
     /\ HopClient # None /\ HopClient[1].status \in {"Frozen", "Expired"})
    => /\ last.core.err = "ClientNotActive"
       /\ last.core.payload = HopClient[1].status
       /\ ~Called("validate_proof_height")
       /\ ~Called("verify_membership")

\* C4 (amended): the same, for messages whose signer the context accepts and
\* channel ends with exactly one connection hop.
C4_InactiveClientRejected ==
    (/\ Validated /\ SignerAccepted
     /\ PreChan # None /\ PreChan[1].state = "TryOpen"
     /\ Len(PreChan[1].connection_hops) = 1
     /\ HopConn # None /\ HopConn[1].state = "Open"
     /\ HopClient # None /\ HopClient[1].status \in {"Frozen", "Expired"})
    => /\ ~last.core.ok
       /\ last.core.err = "ClientNotActive"
       /\ last.core.payload = HopClient[1].status
       /\ ~Called("validate_proof_height")
       /\ ~Called("verify_membership")

\* a Frozen client is reported as Frozen
C4_Witness ==
    /\ Validated /\ SignerAccepted
    /\ PreChan # None /\ PreChan[1].state = "TryOpen"
    /\ Len(PreChan[1].connection_hops) = 1
    /\ HopConn # None /\ HopConn[1].state = "Open"
    /\ HopClient # None /\ HopClient[1].status = "Frozen"
    /\ last.core.err = "ClientNotActive"
    /\ last.core.payload = "Frozen"

\* what the light client answers to the verify_membership call validate made
MembershipAnswer ==
    LET a == last.core.vm[1]
    IN verify_membership(a.prefix, a.proof, a.root, a.path, a.value)

\* C5: whenever validate called verify_membership and the light client
\* answered with an error, validate returned VerifyChannelFailed carrying
\* exactly that error; and whenever validate returned success it had called
\* verify_membership and the light client had accepted the proof.
C5_MembershipDecides ==
    Validated =>
      /\ (last.core.vm # None /\ MembershipAnswer # "")
            => /\ ~last.core.ok
               /\ last.core.err = "VerifyChannelFailed"
               /\ last.core.payload = MembershipAnswer
      /\ last.core.ok
            => /\ last.core.vm # None
               /\ Called("verify_membership")
               /\ MembershipAnswer = ""

\* the proof commits a channel end with another version than B expects
C5_Witness ==
    /\ Validated
    /\ last.core.vm # None
    /\ MembershipAnswer = "ValueMismatch"
    /\ last.core.err = "VerifyChannelFailed"
    /\ last.core.payload = "ValueMismatch"

\* the conditions under which validate accepts, read off the context
\* and the message
HopCons ==
    pre.consensus_states[ClientConsensusStatePath(HopConn[1].client_id,
                                                  last.msg.proof_height_on_a)]

ProofVerifies ==
    verify_membership(
        HopConn[1].counterparty.prefix,
        last.msg.proof_chan_end_on_a,
        HopCons[1].root,
        ChannelEndPath(PreChan[1].remote.port_id, PreChan[1].remote.channel_id[1]),
        encode_vec(ChannelEnd_mk("Open", PreChan[1].ordering,
                                 last.msg.port_id_on_b,
                                 Some(last.msg.chan_id_on_b),
                                 <<HopConn[1].counterparty.connection_id[1]>>,
                                 PreChan[1].version))) = ""

ValidateConditions ==
    /\ SignerAccepted
    /\ PreChan # None /\ PreChan[1].state = "TryOpen"
    /\ Len(PreChan[1].connection_hops) = 1
    /\ HopConn # None /\ HopConn[1].state = "Open"
    /\ HopClient # None /\ HopClient[1].status = "Active"
    /\ last.msg.proof_height_on_a <= HopClient[1].latest_height
    /\ HopCons # None
    /\ PreChan[1].remote.channel_id # None
    /\ HopConn[1].counterparty.connection_id # None
    /\ ProofVerifies

ExecuteOpened ==
    /\ last.res.ok
    /\ channels[MsgPath] # None
    /\ channels[MsgPath][1].state = "Open"

\* C6 (as stated): validate returns success exactly when the signer is
\* accepted, the channel end is TryOpen with one hop, the connection is
\* Open, the client is active, the proof height is valid, the consensus
\* state exists, both counterparty identifiers are set and the membership
\* proof verifies; and an execute that directly follows a successful
\* validate of the same message, with the module hook accepting, succeeds
\* and leaves the channel end Open.
C6_Original ==
    /\ Validated => (last.core.ok <=> ValidateConditions)
    /\ (Executed /\ last.after_validate /\ last.hook # None) => ExecuteOpened

\* C6 (amended): the same, where the following execute succeeds provided
\* the module hook accepts and store_channel does not fail.
C6_ValidateThenExecute ==
    /\ Validated => (last.core.ok <=> ValidateConditions)
    /\ (Executed /\ last.after_validate /\ last.hook # None
          /\ last.store # "failed") => ExecuteOpened

\* a successful validate of a TryOpen channel end followed by its execute
C6_Witness ==
    /\ Executed /\ last.after_validate
    /\ PreChan # None /\ PreChan[1].state = "TryOpen"
    /\ last.store = "written"
    /\ ExecuteOpened

(* ====================== properties of execute ========================== *)

\* C7: whenever execute succeeded, the event sequence is the one before the
\* call followed by Message(Channel), then OpenConfirmChannel carrying the
\* message's port and channel, the stored counterparty port and channel id
\* and the first connection hop, then the module's events in their order:
\* 2 + |module events| new events.
C7_EventsAppended ==
    (Executed /\ last.res.ok) =>
        LET n == Len(pre.events)
            ex == last.hook[1].events
            ce == PreChan[1]
        IN
        /\ Len(events) = n + 2 + Len(ex)
        /\ \A i \in 1..n : events[i] = pre.events[i]
        /\ events[n + 1] = <<"Message", "Channel">>
        /\ events[n + 2] = <<"OpenConfirmChannel",
                             last.msg.port_id_on_b, last.msg.chan_id_on_b,
                             ce.remote.port_id, ce.remote.channel_id[1],
                             ce.connection_hops[1]>>
        /\ \A i \in 1..Len(ex) : events[n + 2 + i] = <<"Module", ex[i]>>

\* an execute whose module returned two events, on a two-hop channel end
C7_Witness ==
    /\ Executed /\ last.res.ok
    /\ Len(last.hook[1].events) = 2
    /\ PreChan[1].connection_hops = <<Conn1, Conn2>>
    /\ Len(events) = Len(pre.events) + 4

\* C8: whenever chan_open_confirm_validate returned, with success or with
\* any error, the store, the events and the logs are those before the call.
C8_ValidateReadOnly ==
    Validated =>
        /\ channels = pre.channels
        /\ connections = pre.connections
        /\ client_states = pre.client_states
        /\ consensus_states = pre.consensus_states
        /\ events = pre.events
        /\ logs = pre.logs

\* core validate and the module hook both accepted
C8_Witness ==
    /\ Validated /\ last.core.ok /\ last.hook_called /\ last.res.ok
    /\ channels[MsgPath][1].state = "TryOpen"

\* C9: whenever execute succeeded, the channel end at the message's
\* identifiers is the one before the call with state Open (ordering,
\* counterparty, connection_hops and version kept), and every other channel
\* end, connection end, client state and consensus state is as before.
C9_OnlyChannelStateChanges ==
    (Executed /\ last.res.ok) =>
        /\ channels[MsgPath] # None /\ PreChan # None
        /\ channels[MsgPath][1].state = "Open"
        /\ channels[MsgPath][1].ordering = PreChan[1].ordering
        /\ channels[MsgPath][1].remote = PreChan[1].remote
        /\ channels[MsgPath][1].connection_hops = PreChan[1].connection_hops
        /\ channels[MsgPath][1].version = PreChan[1].version
        /\ DOMAIN channels = DOMAIN pre.channels
        /\ \A p \in DOMAIN channels \ {MsgPath} : channels[p] = pre.channels[p]
        /\ connections = pre.connections
        /\ client_states = pre.client_states
        /\ consensus_states = pre.consensus_states

\* a TryOpen channel end was opened while another channel end is stored
C9_Witness ==
    /\ Executed /\ last.res.ok
    /\ PreChan[1].state = "TryOpen"
    /\ channels[MsgPath][1].state = "Open"
    /\ \E p \in DOMAIN channels \ {MsgPath} : channels[p] # None

\* C10: whenever execute returned an error, the stored channel end, the
\* events and the logs are those before the call.
C10_NoPartialMutation ==
    (Executed /\ last.res.returned /\ ~last.res.ok) =>
        /\ channels[MsgPath] = PreChan
        /\ events = pre.events
        /\ logs = pre.logs

\* C11: whenever the module's on_chan_open_confirm_execute hook failed,
\* execute returned the module's failure, store_channel was not called, and
\* the store, the events and the logs are those before the call.
C11_HookFailureWritesNothing ==
    (Executed /\ last.hook = None) =>
        /\ ~last.res.ok /\ last.res.returned
        /\ last.res.err = "ModuleError"
        /\ last.store = "not_called"
        /\ channels = pre.channels
        /\ events = pre.events
        /\ logs = pre.logs

\* the hook failed on a call that would otherwise have opened the channel
C11_Witness ==
    /\ Executed /\ last.hook = None
    /\ PreChan # None /\ PreChan[1].state = "TryOpen"
    /\ PreChan[1].remote.channel_id # None
    /\ PreChan[1].connection_hops = <<Conn1>>
    /\ last.res.err = "ModuleError"

\* C12 (as stated): whenever the handler (validate or execute) ran on a
\* channel end in a state other than TryOpen, it returned the channel-state
\* error and left the context as it was; whenever execute stored a channel
\* end as Open, that end was in TryOpen before.
C12_Original ==
    /\ ((Validated \/ Executed) /\ PreChan # None /\ PreChan[1].state # "TryOpen")
          => /\ last.res.err = "InvalidChannelState"
             /\ Snapshot = pre
    /\ (Executed /\ last.store = "written") => PreChan[1].state = "TryOpen"

\* C12 (amended): validate, for an accepted signer, rejects a channel end
\* that is not in TryOpen with the channel-state error and no side effect;
\* an execute that directly follows a successful validate of the same
\* message opens the channel end from TryOpen only.  Execute on its own
\* makes no state check.
C12_OpenOnlyFromTryOpen ==
    /\ (Validated /\ SignerAccepted /\ PreChan # None
          /\ PreChan[1].state # "TryOpen")
          => /\ last.res.err = "InvalidChannelState"
             /\ last.res.payload = PreChan[1].state
             /\ ~last.hook_called
             /\ Snapshot = pre
    /\ (Executed /\ last.after_validate)
          => /\ PreChan # None /\ PreChan[1].state = "TryOpen"
             /\ \A p \in DOMAIN channels :
                   channels[p] # pre.channels[p]
                      => /\ p = MsgPath
                         /\ pre.channels[p][1].state = "TryOpen"
                         /\ channels[p][1].state = "Open"

\* a Closed channel end is refused by validate
C12_Witness ==
    /\ Validated /\ SignerAccepted
    /\ PreChan # None /\ PreChan[1].state = "Closed"
    /\ PreChan[1].remote.channel_id # None
    /\ PreChan[1].connection_hops = <<Conn1>>
    /\ HopConn # None /\ HopConn[1].state = "Open"
    /\ last.res.err = "InvalidChannelState"
    /\ last.res.payload = "Closed"

\* every stored channel end with an unset counterparty channel id is in Init
CounterpartySetPastInit ==
    \A p \in DOMAIN channels :
        (channels[p] # None /\ channels[p][1].remote.channel_id = None)
            => channels[p][1].state = "Init"

\* C13: no validate or execute invocation leads from a store in which every
\* channel end with an unset counterparty channel id is in Init to a store
\* in which one is not.
C13_CounterpartyInvariantKept ==
    [][CounterpartySetPastInit => CounterpartySetPastInit']_vars

\* C14: whenever validate called verify_membership, the expected value was
\* the encoding of a channel end in Open with B's ordering, counterparty
\* (msg.port_id_on_b, msg.chan_id_on_b), the connection's counterparty
\* connection id as only hop and B's version; the path was the channel-end
\* path of B's stored counterparty; the prefix was the connection's
\* counterparty prefix; the root was that of the consensus state at
\* (connection's client, msg.proof_height_on_a); the proof was the message's.
C14_MembershipArguments ==
    (Validated /\ last.core.vm # None) =>
        LET a == last.core.vm[1]
            ce == PreChan[1]
            conn == HopConn[1]
        IN
        /\ a.value = <<3, OrderNum(ce.ordering),
                       last.msg.port_id_on_b, <<last.msg.chan_id_on_b>>,
                       <<conn.counterparty.connection_id[1]>>, ce.version>>
        /\ a.path = <<"channelEnds", ce.remote.port_id, ce.remote.channel_id[1]>>
        /\ a.prefix = conn.counterparty.prefix
        /\ a.root = HopCons[1].root
        /\ a.proof = last.msg.proof_chan_end_on_a

\* verify_membership was called for the Ordered channel end chanB2 with a
\* proof made for chanB1: value and path come from B's store all the same
C14_Witness ==
    /\ Validated /\ last.core.vm # None
    /\ last.msg.chan_id_on_b = ChanB2
    /\ last.msg.proof_chan_end_on_a = ProofOf(ChanA1)
    /\ last.core.vm[1].value = <<3, 2, PortB, <<ChanB2>>, <<ConnA>>, "v1">>
    /\ last.core.vm[1].path = <<"channelEnds", PortA, ChanA2>>

\* C15: an execute that directly follows a successful validate of the same
\* message never returns the missing-counterparty-channel-id internal
\* error; and whenever execute produced that error it returned it (it did
\* not abort) and the stored counterparty channel id was unset.
C15_InternalErrorOnlyWhenUnset ==
    /\ (Executed /\ last.after_validate) => last.res.err # InternalError
    /\ (Executed /\ last.res.err = InternalError)
          => /\ last.res.returned /\ ~last.res.ok
             /\ PreChan # None
             /\ PreChan[1].remote.channel_id = None

\* execute ran right after a successful validate and got past the
\* counterparty channel id
C15_Witness ==
    /\ Executed /\ last.after_validate
    /\ last.hook # None /\ last.store = "written"
    /\ PreChan[1].remote.channel_id = Some(ChanA1)
    /\ last.res.err # InternalError
    /\ \E i \in 1..Len(events) : events[i][1] = "OpenConfirmChannel"

\* the checks of validate in the order the claim gives them, and the errors
\* each one reports
CheckOrder ==
    <<"validate_message_signer", "channel_end", "channel.verify_state_matches",
      "verify_connection_hops_length", "connection_end",
      "connection.verify_state_matches", "client_state", "status",
      "validate_proof_height", "consensus_state", "counterparty_channel_id",
      "counterparty_connection_id", "verify_membership">>

CheckErrors ==
    <<{"SignerRejected"}, {"ChannelNotFound"}, {"InvalidChannelState"},
      {"InvalidConnectionHopsLength"}, {"ConnectionNotFound"},
      {"InvalidConnectionState"}, {"ClientStateNotFound"},
      {"ClientStatusError", "ClientNotActive"}, {"InvalidProofHeight"},
      {"ConsensusStateNotFound"}, {"MissingCounterparty"},
      {"UndefinedConnectionCounterparty"}, {"VerifyChannelFailed"}>>

\* the first j checks all pass on the context and message of the last call
PassUpTo(j) ==
    /\ (j >= 1) => SignerAccepted
    /\ (j >= 2) => PreChan # None
    /\ (j >= 3) => PreChan[1].state = "TryOpen"
    /\ (j >= 4) => Len(PreChan[1].connection_hops) = 1
    /\ (j >= 5) => HopConn # None
    /\ (j >= 6) => HopConn[1].state = "Open"
    /\ (j >= 7) => HopClient # None
    /\ (j >= 8) => HopClient[1].status = "Active"
    /\ (j >= 9) => last.msg.proof_height_on_a <= HopClient[1].latest_height
    /\ (j >= 10) => HopCons # None
    /\ (j >= 11) => PreChan[1].remote.channel_id # None
    /\ (j >= 12) => HopConn[1].counterparty.connection_id # None
    /\ (j >= 13) => ProofVerifies

IsCheck(name) == name # "ChannelEnd_new"

ChecksMade == SelectSeq(last.core.trace, IsCheck)

\* C16: the checks validate made are an initial part of the fixed order;
\* all but the last one passed; on an error the last one made is a check
\* that fails and the error is that check's, and on success all thirteen
\* were made and pass.
C16_FirstFailingCheckReported ==
    Validated =>
        LET k == Len(ChecksMade) IN
        /\ k >= 1 /\ k <= Len(CheckOrder)
        /\ ChecksMade = SubSeq(CheckOrder, 1, k)
        /\ PassUpTo(k - 1)
        /\ last.core.ok => (k = Len(CheckOrder) /\ PassUpTo(k))
        /\ ~last.core.ok => (~PassUpTo(k) /\ last.core.err \in CheckErrors[k])

\* the channel state, the hop count and the connection lookup would all
\* fail; the channel state is reported and nothing after it was evaluated
C16_Witness ==
    /\ Validated /\ SignerAccepted
    /\ PreChan # None /\ PreChan[1].state = "Init"
    /\ PreChan[1].connection_hops = <<Conn1, Conn2>>
    /\ pre.connections[Conn1] = None
    /\ last.core.err = "InvalidChannelState"
    /\ Len(last.core.trace) = 3

\* C17: whenever chan_open_confirm_execute ran, it returned a success or an
\* error value: it did not abort, and in particular not after store_channel
\* had written.
C17_ExecuteNeverAborts ==
    Executed => last.res.returned

\* C18: the module's on_chan_open_confirm_validate hook was invoked exactly
\* when core validate had succeeded; when core validate failed the result
\* is its error, and when the hook was invoked the result is the hook's
\* answer as given.
C18_HookAfterCoreValidate ==
    Validated =>
        /\ last.hook_called <=> last.core.ok
        /\ last.hook_called <=> last.hook # None
        /\ ~last.core.ok
              => /\ ~last.res.ok
                 /\ last.res.err = last.core.err
                 /\ last.res.payload = last.core.payload
        /\ last.core.ok
              => /\ last.res.ok <=> last.hook[1] = ""
                 /\ last.res.err = last.hook[1]

\* core validate succeeded and the module rejected
C18_Witness ==
    /\ Validated /\ last.core.ok /\ last.hook_called
    /\ last.hook = Some("ModuleRejected")
    /\ ~last.res.ok /\ last.res.err = "ModuleRejected"


(* ---------------- C19: replay under validate-then-execute --------------- *)

\* number of OpenConfirmChannel events in evs for the channel chan of PortB
ConfirmCount(evs, chan) ==
    Cardinality({i \in 1..Len(evs) : /\ evs[i][1] = "OpenConfirmChannel"
                                     /\ evs[i][2] = PortB
                                     /\ evs[i][3] = chan})

\* validate and execute have both succeeded for the channel the last call names
ConfirmedBefore == ConfirmCount(pre.events, last.msg.chan_id_on_b) >= 1

\* C19 as stated: after a successful validate and execute for a channel every
\* later validate for that channel fails with the channel-state-mismatch
\* error, and no channel ever has more than one OpenConfirmChannel event
C19_Original ==
    /\ (Validated /\ ConfirmedBefore) => last.res.err = "InvalidChannelState"
    /\ \A chan \in ChanIdsB : ConfirmCount(events, chan) <= 1

\* C19: after a successful validate and execute for a channel every later
\* validate for that channel fails, with the channel-state-mismatch error
\* whenever the signer is accepted (carrying the stored state Open), and no
\* channel ever has more than one OpenConfirmChannel event
C19_ReplayRejected ==
    /\ (Validated /\ ConfirmedBefore) =>
          /\ ~last.res.ok
          /\ PreChan[1].state = "Open"
          /\ SignerAccepted => last.res.err = "InvalidChannelState"
    /\ \A chan \in ChanIdsB : ConfirmCount(events, chan) <= 1

C19_Witness ==
    /\ Validated
    /\ ConfirmedBefore
    /\ SignerAccepted
    /\ last.msg.chan_id_on_b = ChanB1
    /\ last.msg.proof_chan_end_on_a = ProofOf(ChanA1)
    /\ last.msg.proof_height_on_a = 1
    /\ last.res.err = "InvalidChannelState"

(* ---------------- C20: two confirmations validated before either runs --- *)

\* no validated message for the last call's channel is still waiting
NoneInflightForChannel ==
    \A i \in 1..Len(inflight) : inflight[i].chan_id_on_b # last.msg.chan_id_on_b

\* C20 as stated: when the executes of the validated messages for one channel
\* have all run, the channel is Open with its other fields unchanged and has
\* exactly one OpenConfirmChannel event
C20_Original ==
    (Executed /\ last.res.ok /\ NoneInflightForChannel) =>
        /\ channels[MsgPath] = Some([PreChan[1] EXCEPT !.state = "Open"])
        /\ ConfirmCount(events, last.msg.chan_id_on_b) = 1

\* C20: every successful execute leaves the channel Open with its other fields
\* unchanged and adds one OpenConfirmChannel event of its own, so the execute
\* of a second message validated against the same TryOpen snapshot finds the
\* channel already Open and leaves at least two such events for it
C20_EachExecuteEmits ==
    (Executed /\ last.res.ok) =>
        /\ channels[MsgPath] = Some([PreChan[1] EXCEPT !.state = "Open"])
        /\ ConfirmCount(events, last.msg.chan_id_on_b) =
              ConfirmCount(pre.events, last.msg.chan_id_on_b) + 1
        /\ PreChan[1].state = "Open" =>
              ConfirmCount(events, last.msg.chan_id_on_b) >= 2

C20_Witness ==
    /\ Executed
    /\ last.res.ok
    /\ PreChan[1].state = "Open"
    /\ channels[MsgPath] = PreChan
    /\ NoneInflightForChannel
    /\ ConfirmCount(events, last.msg.chan_id_on_b) = 2

====
